---- MODULE Spec2Model ----
(***************************************************************************)
(* A model of the arithmetization core of triton-vm:                       *)
(*   table/base_table.rs                  BaseTable, pad, disjoint_domain, *)
(*                                        interpolate_columns,             *)
(*                                        low_degree_extension             *)
(*   arguments/permutation_argument.rs    PermArg                          *)
(*   proof_item.rs                        Item, its accessors, flattening  *)
(*                                                                         *)
(* Field elements.  BFieldElement is the prime field of the (external)     *)
(* twenty_first crate, p = 2^64 - 2^32 + 1; XFieldElement is its cubic     *)
(* extension B[x]/(x^3 - x + 1).  TLC's integers are 32 bits wide, so the  *)
(* model keeps the structure and scales the sizes: the prime is P = 13     *)
(* (x^3 - x + 1 has no root mod 13, so the cubic extension is again a      *)
(* field, and 13 - 1 has the subgroups of order 1, 2 and 4 that padded     *)
(* heights need), and the enumeration limit 2^32 of disjoint_domain is     *)
(* 2^EnumBits = 8, which like the original is smaller than the prime, so   *)
(* that new_from_usize is injective on the enumerated range.               *)
(***************************************************************************)
EXTENDS Integers, Sequences, FiniteSets, TLC

VARIABLES
    dd,      \* the last call of disjoint_domain: its arguments and result
    item,    \* the proof item at hand (proof_item.rs, enum Item)
    acc,     \* the last call of a typed accessor as_*: accessor, argument, result
    flat,    \* the last call of Item::into_iter: argument and result
    perm,    \* the last call into PermArg: operation, arguments, result
    table,   \* the BaseTable value the program holds
    padc,    \* the running call of pad: its position, target and entry state
    lde,     \* the running call of interpolate_columns / low_degree_extension
    lifted   \* the last call of with_lifted_data: arguments and result

vars == <<dd, item, acc, flat, perm, table, padc, lde, lifted>>

-----------------------------------------------------------------------------
(* Bounds of the model *)

\* the largest domain_length requested from disjoint_domain
MaxDomainLength == 6
\* the exclusion slices of disjoint_domain are drawn from 0 .. MaxExcluded
MaxExcluded == 5
\* the longest vector of field elements a proof item carries
MaxElems == 2
\* the most vectors, paths or pairs a proof item carries
MaxOuter == 2
\* the most rows of a trace a table is made of
MaxRows == 2
\* the most rows a matrix grows to, and the largest shared padded height
MaxHeight == 4
\* how often with_data is applied to a table and its descendants
MaxDerivations == 1
\* the most trace randomizers asked for
MaxRandomizers == 1

-----------------------------------------------------------------------------
(* Field arithmetic (twenty_first, consumed) *)

\* the modulus of BFieldElement, scaled
P == 13
\* 2_usize.pow(32): the exponent of the enumeration limit, scaled
EnumBits == 3

BField == 0 .. (P - 1)

BAdd(a, b) == (a + b) % P
BSub(a, b) == (a - b + P) % P
BMul(a, b) == (a * b) % P

RECURSIVE BPow(_, _)
BPow(a, n) == IF n = 0 THEN 1 ELSE BMul(a, BPow(a, n - 1))

\* the multiplicative inverse; of zero it does not exist
BInv(a) == BPow(a, P - 2)

\* PrimeField::new_from_usize for BFieldElement
new_from_usize(d) == d % P

\* XFieldElement: the coefficients <<c0, c1, c2>> of c0 + c1 x + c2 x^2
XField == BField \X BField \X BField
XZero == <<0, 0, 0>>
XOne == <<1, 0, 0>>
XLift(b) == <<b, 0, 0>>
XAdd(a, b) == <<BAdd(a[1], b[1]), BAdd(a[2], b[2]), BAdd(a[3], b[3])>>
XSub(a, b) == <<BSub(a[1], b[1]), BSub(a[2], b[2]), BSub(a[3], b[3])>>
\* the product modulo x^3 - x + 1: x^3 = x - 1, x^4 = x^2 - x
XMul(a, b) ==
    LET r0 == a[1] * b[1]
        r1 == a[1] * b[2] + a[2] * b[1]
        r2 == a[1] * b[3] + a[2] * b[2] + a[3] * b[1]
        r3 == a[2] * b[3] + a[3] * b[2]
        r4 == a[3] * b[3]
    IN  << (r0 - r3 + P * P) % P, (r1 + r3 - r4 + P * P) % P, (r2 + r4) % P >>

RECURSIVE XPow(_, _)
XPow(a, n) ==
    IF n = 0 THEN XOne
    ELSE IF n % 2 = 0 THEN LET h == XPow(a, n \div 2) IN XMul(h, h)
    ELSE XMul(a, XPow(a, n - 1))

\* the inverse of a non-zero element of the field of P^3 elements
XInv(a) == XPow(a, P * P * P - 2)

-----------------------------------------------------------------------------
(* Sequence helpers *)

Range(s) == { s[i] : i \in 1 .. Len(s) }

IsInjective(s) == \A i, j \in 1 .. Len(s) : s[i] = s[j] => i = j

RECURSIVE Concat(_)
\* itertools concat / slice::concat: the sequences of ss joined in order
Concat(ss) == IF ss = << >> THEN << >> ELSE Head(ss) \o Concat(Tail(ss))

-----------------------------------------------------------------------------
(* base_table.rs: disjoint_domain *)

\* the first value outside the enumerated range (0..2_usize.pow(32))
EnumLimit == 2 ^ EnumBits

RECURSIVE dd_scan(_, _, _, _)
\* the lazy iterator chain map / filter / take / collect, at position d with
\* taken collected so far: take(domain_length) stops the scan as soon as
\* domain_length elements are collected, the range stops it at its end
dd_scan(d, domain_length, excluded, taken) ==
    IF Len(taken) = domain_length \/ d = EnumLimit THEN taken
    ELSE LET e == new_from_usize(d)
         IN  IF e \in excluded
             THEN dd_scan(d + 1, domain_length, excluded, taken)
             ELSE dd_scan(d + 1, domain_length, excluded, Append(taken, e))

\* disjoint_domain(domain_length, disjoint_domain, ring_one); the slice of
\* excluded elements is only ever asked `contains`, so it is kept as a set
disjoint_domain(domain_length, excluded) ==
    dd_scan(0, domain_length, excluded, << >>)

NoCall == [op |-> "none"]

Call_disjoint_domain ==
    /\ dd = NoCall
    /\ \E k \in 0 .. MaxDomainLength, S \in SUBSET (0 .. MaxExcluded) :
          dd' = [op |-> "disjoint_domain", domain_length |-> k, excluded |-> S,
                 result |-> disjoint_domain(k, S)]
    /\ UNCHANGED <<item, acc, flat, perm, table, padc, lde, lifted>>

\* the caller takes the result
Return_disjoint_domain ==
    /\ dd # NoCall
    /\ dd' = NoCall
    /\ UNCHANGED <<item, acc, flat, perm, table, padc, lde, lifted>>

-----------------------------------------------------------------------------
(* proof_item.rs: enum Item *)

\* Result<T, Box<dyn Error>>
Ok(v) == [ok |-> TRUE, value |-> v]
\* Err(ProofStreamError::boxed(message))
Err(message) == [ok |-> FALSE, error |-> message]

\* Option<Digest>, the node of a PartialAuthenticationPath
None == [some |-> FALSE]
Some(v) == [some |-> TRUE, value |-> v]

Variants ==
    { "CompressedAuthenticationPaths", "TransposedBaseElementVectors",
      "TransposedExtensionElementVectors", "MerkleRoot", "Terminals",
      "TransposedBaseElements", "TransposedExtensionElements",
      "AuthenticationPath", "RevealedCombinationElement",
      "RevealedCombinationElements", "FriCodeword", "FriProof",
      "SharedPaddedHeight" }

\* Item::V(payload)
MkItem(variant, payload) == [variant |-> variant, payload |-> payload]

as_compressed_authentication_paths(self) ==
    IF self.variant = "CompressedAuthenticationPaths" THEN Ok(self.payload)
    ELSE Err("expected compressed authentication paths, but got something else")

as_transposed_base_element_vectors(self) ==
    IF self.variant = "TransposedBaseElementVectors" THEN Ok(self.payload)
    ELSE Err("expected transposed base element vectors, but got something else")

as_transposed_extension_element_vectors(self) ==
    IF self.variant = "TransposedExtensionElementVectors" THEN Ok(self.payload)
    ELSE Err("expected transposed extension element vectors, but got something else")

as_merkle_root(self) ==
    IF self.variant = "MerkleRoot" THEN Ok(self.payload)
    ELSE Err("expected merkle root, but got something else")

as_terminals(self) ==
    IF self.variant = "Terminals" THEN Ok(self.payload)
    ELSE Err("expected all terminals, but got something else")

as_transposed_base_elements(self) ==
    IF self.variant = "TransposedBaseElements" THEN Ok(self.payload)
    ELSE Err("expected tranposed base elements, but got something else")

as_transposed_extension_elements(self) ==
    IF self.variant = "TransposedExtensionElements" THEN Ok(self.payload)
    ELSE Err("expected tranposed extension elements, but got something else")

as_authentication_path(self) ==
    IF self.variant = "AuthenticationPath" THEN Ok(self.payload)
    ELSE Err("expected authentication path, but got something else")

as_revealed_combination_element(self) ==
    IF self.variant = "RevealedCombinationElement" THEN Ok(self.payload)
    ELSE Err("expected revealed combination element, but got something else")

as_revealed_combination_elements(self) ==
    IF self.variant = "RevealedCombinationElements" THEN Ok(self.payload)
    ELSE Err("expected revealed combination elements, but got something else")

\* the mutant of as_fri_codeword: it also accepts the other item that carries
\* a vector of extension elements
as_fri_codeword_lenient(self) ==
    IF self.variant \in {"FriCodeword", "RevealedCombinationElements"}
    THEN Ok(self.payload)
    ELSE Err("expected FRI codeword, but got something else")

as_fri_codeword(self) ==
    IF self.variant = "FriCodeword" THEN Ok(self.payload)
    ELSE Err("expected FRI codeword, but got something else")

as_fri_proof(self) ==
    IF self.variant = "FriProof" THEN Ok(self.payload)
    ELSE Err("expected FRI proof, but got something else")

as_shared_padded_height(self) ==
    IF self.variant = "SharedPaddedHeight" THEN Ok(self.payload)
    ELSE Err("expected shared, padded table height, but got something else")

\* the accessor written for each variant
Accessor(variant, self) ==
    CASE variant = "CompressedAuthenticationPaths" -> as_compressed_authentication_paths(self)
      [] variant = "TransposedBaseElementVectors" -> as_transposed_base_element_vectors(self)
      [] variant = "TransposedExtensionElementVectors" -> as_transposed_extension_element_vectors(self)
      [] variant = "MerkleRoot" -> as_merkle_root(self)
      [] variant = "Terminals" -> as_terminals(self)
      [] variant = "TransposedBaseElements" -> as_transposed_base_elements(self)
      [] variant = "TransposedExtensionElements" -> as_transposed_extension_elements(self)
      [] variant = "AuthenticationPath" -> as_authentication_path(self)
      [] variant = "RevealedCombinationElement" -> as_revealed_combination_element(self)
      [] variant = "RevealedCombinationElements" -> as_revealed_combination_elements(self)
      [] variant = "FriCodeword" -> as_fri_codeword(self)
      [] variant = "FriProof" -> as_fri_proof(self)
      [] variant = "SharedPaddedHeight" -> as_shared_padded_height(self)

\* x.coefficients.to_vec()
coefficients(x) == x

\* the mutant of xs_to_bs: the coefficient of x^2 is dropped
xs_to_bs_two(xs) == Concat([i \in 1 .. Len(xs) |-> SubSeq(coefficients(xs[i]), 1, 2)])

xs_to_bs(xs) == Concat([i \in 1 .. Len(xs) |-> coefficients(xs[i])])

\* partial_auth_path.0.iter().flatten(): the digests of the nodes present,
\* each appended to bs
path_to_bs(path) ==
    Concat([i \in 1 .. Len(path) |-> IF path[i].some THEN path[i].value ELSE << >>])

\* AllEndpoints::into_iter (table/challenges_endpoints.rs): the terminal values
\* flattened like any other extension elements
AllEndpoints_into_iter(all_endpoints) == xs_to_bs(all_endpoints)

\* impl IntoIterator for Item
into_iter(self) ==
    LET p == self.payload IN
    CASE self.variant = "MerkleRoot" -> p
      [] self.variant = "Terminals" -> AllEndpoints_into_iter(p)
      [] self.variant = "TransposedBaseElements" -> p
      [] self.variant = "TransposedExtensionElements" -> xs_to_bs(p)
      [] self.variant = "AuthenticationPath" -> Concat(p)
      [] self.variant = "RevealedCombinationElement" -> xs_to_bs(<<p>>)
      [] self.variant = "FriCodeword" -> xs_to_bs(p)
      [] self.variant = "RevealedCombinationElements" -> xs_to_bs(p)
      [] self.variant = "FriProof" ->
            Concat([i \in 1 .. Len(p) |-> path_to_bs(p[i][1]) \o xs_to_bs(<<p[i][2]>>)])
      [] self.variant = "CompressedAuthenticationPaths" ->
            Concat([i \in 1 .. Len(p) |-> path_to_bs(p[i])])
      [] self.variant = "TransposedBaseElementVectors" -> Concat(p)
      [] self.variant = "TransposedExtensionElementVectors" ->
            Concat([i \in 1 .. Len(p) |-> xs_to_bs(p[i])])
      [] self.variant = "SharedPaddedHeight" -> <<p>>

(* The payloads the items of the model carry *)

SeqsUpTo(S, n) == UNION { [1 .. k -> S] : k \in 0 .. n }

ItemBs == {3, 7}
ItemXs == { <<1, 2, 3>>, <<4, 0, 6>> }
ItemBVecs == SeqsUpTo(ItemBs, MaxElems)
ItemXVecs == SeqsUpTo(ItemXs, MaxElems)
ItemDigests == { <<3>>, <<7, 3>> }
ItemPaths ==
    { << >>, <<None>>, <<Some(<<3>>), None>>, <<None, Some(<<7, 3>>), Some(<<3>>)>> }

Payloads(variant) ==
    CASE variant = "CompressedAuthenticationPaths" -> SeqsUpTo(ItemPaths, MaxOuter)
      [] variant = "TransposedBaseElementVectors" -> SeqsUpTo({ << >>, <<3>>, <<7, 3>> }, MaxOuter)
      [] variant = "TransposedExtensionElementVectors" ->
            SeqsUpTo({ << >>, << <<1, 2, 3>> >>, << <<4, 0, 6>>, <<1, 2, 3>> >> }, MaxOuter)
      [] variant = "MerkleRoot" -> ItemBVecs
      [] variant = "Terminals" -> ItemXVecs
      [] variant = "TransposedBaseElements" -> ItemBVecs
      [] variant = "TransposedExtensionElements" -> ItemXVecs
      [] variant = "AuthenticationPath" -> SeqsUpTo(ItemDigests, MaxOuter)
      [] variant = "RevealedCombinationElement" -> ItemXs
      [] variant = "RevealedCombinationElements" -> ItemXVecs
      [] variant = "FriCodeword" -> ItemXVecs
      [] variant = "FriProof" ->
            SeqsUpTo({ << >>, <<Some(<<3>>), None>> } \X ItemXs, MaxOuter)
      [] variant = "SharedPaddedHeight" -> ItemBs

\* one of the constructors Item::V(payload)
Construct ==
    /\ item = NoCall
    /\ \E v \in Variants : \E p \in Payloads(v) : item' = MkItem(v, p)
    /\ acc' = NoCall
    /\ flat' = NoCall
    /\ UNCHANGED <<dd, perm, table, padc, lde, lifted>>

\* a call item.as_v(): the accessors borrow the item
CallAccessor ==
    /\ item # NoCall
    /\ \E v \in Variants :
          acc' = [op |-> "accessor", accessor |-> v, self |-> item,
                  result |-> Accessor(v, item)]
    /\ UNCHANGED <<dd, item, flat, perm, table, padc, lde, lifted>>

\* a call item.into_iter(): the item is moved into the call
CallIntoIter ==
    /\ item # NoCall
    /\ flat' = [op |-> "into_iter", self |-> item, result |-> into_iter(item)]
    /\ item' = NoCall
    /\ acc' = NoCall
    /\ UNCHANGED <<dd, perm, table, padc, lde, lifted>>

NextItem == Construct \/ CallAccessor \/ CallIntoIter

-----------------------------------------------------------------------------
(* arguments/permutation_argument.rs: PermArg *)

\* table_collection.rs, enum TableId: the tables the permutation arguments name
TableIds ==
    { "ProcessorTable", "InstructionTable", "JumpStackTable", "OpStackTable",
      "RamTable", "U32OpTable" }

\* PermArg::new
PermArg_new(from_table, from_column, to_table, to_column) ==
    [from_table |-> from_table, from_column |-> from_column,
     to_table |-> to_table, to_column |-> to_column]

\* The column arguments are the Ext*TableColumn values converted to usize; the
\* model keeps the column by its name.
processor_instruction_perm_arg ==
    PermArg_new("ProcessorTable", "InstructionTablePermArg",
                "InstructionTable", "RunningProductPermArg")

processor_jump_stack_perm_arg ==
    PermArg_new("ProcessorTable", "JumpStackTablePermArg",
                "JumpStackTable", "RunningProductPermArg")

processor_op_stack_perm_arg ==
    PermArg_new("ProcessorTable", "OpStackTablePermArg",
                "OpStackTable", "RunningProductPermArg")

\* the mutant of processor_ram_perm_arg: the two ends swapped
processor_ram_perm_arg_swapped ==
    PermArg_new("RamTable", "RunningProductPermArg",
                "ProcessorTable", "RamTablePermArg")

processor_ram_perm_arg ==
    PermArg_new("ProcessorTable", "RamTablePermArg",
                "RamTable", "RunningProductPermArg")

processor_u32_perm_arg ==
    PermArg_new("ProcessorTable", "U32OpTablePermArg",
                "U32OpTable", "RunningProductPermArg")

all_permutation_arguments ==
    << processor_instruction_perm_arg,
       processor_jump_stack_perm_arg,
       processor_op_stack_perm_arg,
       processor_ram_perm_arg,
       processor_u32_perm_arg >>

\* FriDomain (fri_domain.rs): an ordered sequence of `length` domain points,
\* the coset offset * omega^i of the subgroup that omega generates
FriDomain(offset, omega, length) ==
    [offset |-> offset, omega |-> omega, length |-> length]

\* FriDomain<XFieldElement>::domain_values
x_domain_values(fri_domain) ==
    [i \in 1 .. fri_domain.length |->
        XLift(BMul(fri_domain.offset, BPow(fri_domain.omega, i - 1)))]

\* ExtTableCollection::data(table_id): the codewords of a table, by column
data(ext_codeword_tables, table_id) == ext_codeword_tables[table_id]

\* XFieldElement::batch_inversion: the inverse of each element
batch_inversion(xs) == [i \in 1 .. Len(xs) |-> XInv(xs[i])]

Min(a, b) == IF a <= b THEN a ELSE b

\* the mutant of quotient: the zerofier is x + 1
quotient_plus_one(self, ext_codeword_tables, fri_domain) ==
    LET lhs_codeword == data(ext_codeword_tables, self.from_table)[self.from_column]
        rhs_codeword == data(ext_codeword_tables, self.to_table)[self.to_column]
        values == x_domain_values(fri_domain)
        inverse_zerofier ==
            batch_inversion([i \in 1 .. Len(values) |-> XAdd(values[i], XOne)])
        n == Min(Len(lhs_codeword), Min(Len(rhs_codeword), Len(inverse_zerofier)))
    IN  [i \in 1 .. n |->
            XMul(XSub(lhs_codeword[i], rhs_codeword[i]), inverse_zerofier[i])]

\* PermArg::quotient; izip! stops at the shortest of its three sequences
quotient(self, ext_codeword_tables, fri_domain) ==
    LET lhs_codeword == data(ext_codeword_tables, self.from_table)[self.from_column]
        rhs_codeword == data(ext_codeword_tables, self.to_table)[self.to_column]
        values == x_domain_values(fri_domain)
        inverse_zerofier ==
            batch_inversion([i \in 1 .. Len(values) |-> XSub(values[i], XOne)])
        n == Min(Len(lhs_codeword), Min(Len(rhs_codeword), Len(inverse_zerofier)))
    IN  [i \in 1 .. n |->
            XMul(XSub(lhs_codeword[i], rhs_codeword[i]), inverse_zerofier[i])]

\* PermArg::evaluate_difference; points holds one row of values per table
evaluate_difference(self, points) ==
    LET lhs == points[self.from_table][self.from_column]
        rhs == points[self.to_table][self.to_column]
    IN  XSub(lhs, rhs)

(* The arguments the calls of quotient are given *)

\* FRI domains: cosets, by the generator 2 of the field's units, of the
\* subgroups of order 2 and 4; no coset of them holds the point 1
PermFriDomains == { FriDomain(2, 12, 2), FriDomain(2, 5, 4), FriDomain(7, 12, 2) }

\* the values a codeword of the model takes
CodewordValues == { <<1, 2, 3>>, <<0, 5, 12>> }

\* the two columns of every table of the collection
ColumnsOf(table_id) ==
    IF table_id = "ProcessorTable"
    THEN { "InstructionTablePermArg", "JumpStackTablePermArg", "OpStackTablePermArg",
           "RamTablePermArg", "U32OpTablePermArg" }
    ELSE { "RunningProductPermArg" }

\* a collection of codeword tables over a domain of n points, whose columns
\* all hold the codeword rest, but for the two columns that pa names
ExtTables(pa, lhs, rhs, rest) ==
    [t \in TableIds |->
        [c \in ColumnsOf(t) |->
            IF t = pa.from_table /\ c = pa.from_column THEN lhs
            ELSE IF t = pa.to_table /\ c = pa.to_column THEN rhs
            ELSE rest]]

Call_all_permutation_arguments ==
    /\ perm = NoCall
    /\ perm' = [op |-> "all_permutation_arguments", result |-> all_permutation_arguments]
    /\ UNCHANGED <<dd, item, acc, flat, table, padc, lde, lifted>>

Call_quotient ==
    /\ perm = NoCall
    /\ \E k \in 1 .. Len(all_permutation_arguments), fri \in PermFriDomains :
       \E lhs, rhs \in [1 .. fri.length -> CodewordValues] :
          LET pa == all_permutation_arguments[k]
              ext == ExtTables(pa, lhs, rhs, [i \in 1 .. fri.length |-> XZero])
          IN  perm' = [op |-> "quotient", self |-> pa, ext_codeword_tables |-> ext,
                       fri_domain |-> fri, result |-> quotient(pa, ext, fri)]
    /\ UNCHANGED <<dd, item, acc, flat, table, padc, lde, lifted>>

\* the caller takes the result
Return_perm ==
    /\ perm # NoCall
    /\ perm' = NoCall
    /\ UNCHANGED <<dd, item, acc, flat, table, padc, lde, lifted>>

NextPerm == Call_all_permutation_arguments \/ Call_quotient \/ Return_perm

-----------------------------------------------------------------------------
(* table/base_table.rs: BaseTable *)

\* BaseTable::new
BaseTable_new(base_width, full_width, matrix, name) ==
    [base_width |-> base_width,
     full_width |-> full_width,
     matrix |-> matrix,
     name |-> name,
     boundary_constraints |-> None,
     transition_constraints |-> None,
     consistency_constraints |-> None,
     terminal_constraints |-> None,
     boundary_quotient_degree_bounds |-> None,
     transition_quotient_degree_bounds |-> None,
     consistency_quotient_degree_bounds |-> None,
     terminal_quotient_degree_bounds |-> None]

\* MPolynomial (twenty_first): variable_count variables and, for every term
\* with a non-zero coefficient, its vector of exponents
MPolynomial(variable_count, exponents) ==
    [variable_count |-> variable_count, exponents |-> exponents]

RECURSIVE SumSeq(_)
SumSeq(s) == IF s = << >> THEN 0 ELSE Head(s) + SumSeq(Tail(s))

RECURSIVE MaxOf(_, _)
\* the fold  bound = max(bound, x)  over the elements of S
MaxOf(S, bound) ==
    IF S = {} THEN bound
    ELSE LET x == CHOOSE y \in S : TRUE
         IN  MaxOf(S \ {x}, IF x > bound THEN x ELSE bound)

\* MPolynomial::symbolic_degree_bound (twenty_first): the degree of the
\* polynomial after each variable is replaced by a univariate polynomial of
\* the degree max_degrees gives it; -1 for the zero polynomial.  In every
\* call of the model max_degrees has one entry per variable.
symbolic_degree_bound(mpo, max_degrees) ==
    MaxOf({ SumSeq([v \in 1 .. Min(Len(e), Len(max_degrees)) |-> max_degrees[v] * e[v]])
              : e \in mpo.exponents }, -1)

\* the mutant of compute_degree_bounds: the degree of the zerofier is taken
\* to be the number of variables
compute_degree_bounds_by_width(air_constraints, interpolant_degree, full_width) ==
    [i \in 1 .. Len(air_constraints) |->
        symbolic_degree_bound(air_constraints[i],
                              [v \in 1 .. full_width |-> interpolant_degree]) - full_width]

\* BaseTable::compute_degree_bounds
compute_degree_bounds(air_constraints, interpolant_degree, full_width) ==
    [i \in 1 .. Len(air_constraints) |->
        symbolic_degree_bound(air_constraints[i],
                              [v \in 1 .. full_width |-> interpolant_degree]) - 1]

\* the mutant of extension: the terminal constraints are not attached
extension_without_terminal(base_table, interpolant_degree, boundary_constraints, transition_constraints, consistency_constraints, terminal_constraints) ==
    LET full_width == base_table.full_width
    IN  [base_table EXCEPT
            !.boundary_constraints = Some(boundary_constraints),
            !.transition_constraints = Some(transition_constraints),
            !.consistency_constraints = Some(consistency_constraints),
            !.boundary_quotient_degree_bounds =
                Some(compute_degree_bounds(boundary_constraints, interpolant_degree, full_width)),
            !.transition_quotient_degree_bounds =
                Some(compute_degree_bounds(transition_constraints, interpolant_degree, 2 * full_width)),
            !.consistency_quotient_degree_bounds =
                Some(compute_degree_bounds(consistency_constraints, interpolant_degree, full_width)),
            !.terminal_quotient_degree_bounds =
                Some(compute_degree_bounds(terminal_constraints, interpolant_degree, full_width))]

\* BaseTable::extension
extension(base_table, interpolant_degree, boundary_constraints, transition_constraints, consistency_constraints, terminal_constraints) ==
    LET full_width == base_table.full_width
        boundary_quotient_degree_bounds ==
            compute_degree_bounds(boundary_constraints, interpolant_degree, full_width)
        transition_quotient_degree_bounds ==
            compute_degree_bounds(transition_constraints, interpolant_degree, 2 * full_width)
        consistency_quotient_degree_bounds ==
            compute_degree_bounds(consistency_constraints, interpolant_degree, full_width)
        terminal_quotient_degree_bounds ==
            compute_degree_bounds(terminal_constraints, interpolant_degree, full_width)
    IN  [base_table EXCEPT
            !.boundary_constraints = Some(boundary_constraints),
            !.transition_constraints = Some(transition_constraints),
            !.consistency_constraints = Some(consistency_constraints),
            !.terminal_constraints = Some(terminal_constraints),
            !.boundary_quotient_degree_bounds = Some(boundary_quotient_degree_bounds),
            !.transition_quotient_degree_bounds = Some(transition_quotient_degree_bounds),
            !.consistency_quotient_degree_bounds = Some(consistency_quotient_degree_bounds),
            !.terminal_quotient_degree_bounds = Some(terminal_quotient_degree_bounds)]

\* BaseTable::with_data
with_data(self, matrix) ==
    [self EXCEPT !.matrix = matrix, !.name = self.name \o " with data"]

\* the mutant of with_lifted_data: a copy of the table as with_data makes it
with_lifted_data_as_copy(self, matrix, num_trace_randomizers) ==
    [self EXCEPT !.matrix = matrix, !.name = self.name \o " with lifted data"]

\* BaseTable<BWord>::with_lifted_data
with_lifted_data(self, matrix, num_trace_randomizers) ==
    BaseTable_new(self.base_width, self.full_width, matrix,
                  self.name \o " with lifted data")

\* HasBaseTable::data
data_of(self) == self.matrix

(* The tables, rows and constraints of the model *)

\* the widths of the table of the model
BaseWidth == 2
FullWidth == 3
TableName == "T"

\* rows of trace data, and the rows a table kind pads with
DataRows == { <<1, 2>>, <<3, 4>> }
PaddingRows == { <<0, 7>> }

\* BaseTableTrait::get_padding_row, which every table kind writes for itself:
\* the rows it may return
get_padding_row(self) == PaddingRows

\* how often with_data was applied, read off the name
Derivations(name) == (Len(name) - Len(TableName)) \div Len(" with data")

\* the constraint x^e1 * y^e2 ... over the variables of one row, as a
\* boundary, consistency or terminal constraint
RowConstraint(exponents) == MPolynomial(FullWidth, exponents)
Zeros(n) == [v \in 1 .. n |-> 0]
\* the same polynomial as a transition constraint: over the variables of a
\* row and of its successor, in those of the row or in those of the successor
InRow(exponents) == MPolynomial(2 * FullWidth, { e \o Zeros(FullWidth) : e \in exponents })
InNextRow(exponents) == MPolynomial(2 * FullWidth, { Zeros(FullWidth) \o e : e \in exponents })

ShapeA == { <<1, 0, 0>> }
ShapeB == { <<2, 1, 0>>, <<0, 0, 1>>, <<0, 0, 0>> }
ShapeZero == { }

RowConstraintLists ==
    { <<RowConstraint(ShapeA)>>, <<RowConstraint(ShapeB), RowConstraint(ShapeZero)>> }
FewRowConstraintLists == { << >>, <<RowConstraint(ShapeB)>> }
TransitionConstraintLists ==
    { << >>, <<InNextRow(ShapeB)>>,
      <<InRow(ShapeA), InNextRow(ShapeZero),
        MPolynomial(2 * FullWidth, { <<1, 0, 0, 1, 0, 0>> })>> }
InterpolantDegrees == { -1, 3 }

\* BaseTable::new on the rows of a trace
New ==
    /\ table = NoCall
    /\ \E matrix \in SeqsUpTo(DataRows, MaxRows) :
          table' = BaseTable_new(BaseWidth, FullWidth, matrix, TableName)
    /\ UNCHANGED <<dd, item, acc, flat, perm, padc, lde, lifted>>

\* table = BaseTable::extension(table, ...)
Extension ==
    /\ table # NoCall /\ padc = NoCall /\ lde = NoCall /\ lifted = NoCall
    /\ \E d \in InterpolantDegrees,
          b \in RowConstraintLists, t \in TransitionConstraintLists,
          c \in FewRowConstraintLists, e \in FewRowConstraintLists :
          table' = extension(table, d, b, t, c, e)
    /\ UNCHANGED <<dd, item, acc, flat, perm, padc, lde, lifted>>

\* table = table.with_data(matrix)
WithData ==
    /\ table # NoCall /\ padc = NoCall /\ lde = NoCall /\ lifted = NoCall
    /\ Derivations(table.name) < MaxDerivations
    /\ \E matrix \in SeqsUpTo(DataRows, MaxRows) : table' = with_data(table, matrix)
    /\ UNCHANGED <<dd, item, acc, flat, perm, padc, lde, lifted>>

\* rows of extension field elements, as wide as the table
LiftedRows == { <<XLift(1), <<2, 3, 4>>, <<0, 0, 1>>>> }

\* lifted = table.with_lifted_data(matrix, num_trace_randomizers)
WithLiftedData ==
    /\ table # NoCall /\ padc = NoCall /\ lde = NoCall /\ lifted = NoCall
    /\ \E matrix \in SeqsUpTo(LiftedRows, MaxRows),
          num_trace_randomizers \in 0 .. MaxRandomizers :
          lifted' = [op |-> "with_lifted_data", self |-> table, matrix |-> matrix,
                     num_trace_randomizers |-> num_trace_randomizers,
                     result |-> with_lifted_data(table, matrix, num_trace_randomizers)]
    /\ UNCHANGED <<dd, item, acc, flat, perm, table, padc, lde>>

\* the caller goes on with the lifted table
LiftedReturn ==
    /\ lifted # NoCall
    /\ lifted' = NoCall
    /\ UNCHANGED <<dd, item, acc, flat, perm, table, padc, lde>>

\* the mutant of pad_push: the row is put in front
pad_push_front(matrix, padding_row) == <<padding_row>> \o matrix

\* self.mut_data().push(padding_row)
pad_push(matrix, padding_row) == Append(matrix, padding_row)

\* the mutant of pad_loop_condition: the loop is left once the table is
\* as high as the target or higher
pad_loop_condition_below(height, shared_padded_height) == height < shared_padded_height

\* while self.data().len() != shared_padded_height
pad_loop_condition(height, shared_padded_height) == height # shared_padded_height

\* table.pad(shared_padded_height) is called
PadCall ==
    /\ table # NoCall /\ padc = NoCall /\ lde = NoCall /\ lifted = NoCall
    /\ \E shared_padded_height \in 0 .. MaxHeight :
          padc' = [op |-> "pad", shared_padded_height |-> shared_padded_height,
                   entry |-> table, rows |-> << >>]
    /\ UNCHANGED <<dd, item, acc, flat, perm, table, lde, lifted>>

\* one test of the loop condition of pad, and the body if it holds; a matrix
\* of MaxHeight rows is as large as the model lets it grow
PadStep ==
    /\ padc.op = "pad"
    /\ IF pad_loop_condition(Len(data_of(table)), padc.shared_padded_height)
       THEN /\ Len(data_of(table)) < MaxHeight
            /\ \E padding_row \in get_padding_row(table) :
                  /\ table' = [table EXCEPT !.matrix = pad_push(@, padding_row)]
                  /\ padc' = [padc EXCEPT !.rows = Append(@, padding_row)]
       ELSE /\ padc' = [padc EXCEPT !.op = "pad returned"]
            /\ table' = table
    /\ UNCHANGED <<dd, item, acc, flat, perm, lde, lifted>>

\* the caller goes on
PadReturn ==
    /\ padc.op = "pad returned"
    /\ padc' = NoCall
    /\ UNCHANGED <<dd, item, acc, flat, perm, table, lde, lifted>>

NextTable ==
    \/ New \/ Extension \/ WithData \/ PadCall \/ PadStep \/ PadReturn
    \/ WithLiftedData \/ LiftedReturn

-----------------------------------------------------------------------------
(* table/base_table.rs: interpolate_columns and low_degree_extension, for a
   table of base field elements *)

\* the inverses of the non-zero elements of the base field
BInverses == [a \in 1 .. (P - 1) |-> BInv(a)]

RECURSIVE BSum(_, _)
\* the sum of f[1], ..., f[n] in the base field
BSum(f, n) == IF n = 0 THEN 0 ELSE BAdd(BSum(f, n - 1), f[n])

RECURSIVE BProduct(_, _)
BProduct(f, n) == IF n = 0 THEN 1 ELSE BMul(BProduct(f, n - 1), f[n])

\* Polynomial<DataPF> (twenty_first), kept as the value it takes at every
\* element of the field: the polynomials of degree below P are in one-to-one
\* correspondence with these tables of values
Polynomial_ring_zero == [x \in BField |-> 0]

\* Polynomial::fast_interpolate (twenty_first): the polynomial of degree
\* below Len(domain) that takes the value values[j] at domain[j]; the points
\* of domain are pairwise distinct
fast_interpolate(domain, values) ==
    LET n == Len(domain)
        weight == [j \in 1 .. n |->
            BMul(values[j],
                 BProduct([m \in 1 .. n |->
                     IF m = j THEN 1 ELSE BInverses[BSub(domain[j], domain[m])]], n))]
    IN  [x \in BField |->
            BSum([j \in 1 .. n |->
                BMul(weight[j],
                     BProduct([m \in 1 .. n |->
                         IF m = j THEN 1 ELSE BSub(x, domain[m])], n))], n)]

\* FriDomain<BFieldElement>::domain_values (fri_domain.rs)
b_domain_values(fri_domain) ==
    [i \in 1 .. fri_domain.length |->
        BMul(fri_domain.offset, BPow(fri_domain.omega, i - 1))]

\* FriDomain::evaluate (fri_domain.rs): the values of the polynomial at the
\* points of the domain, in their order
evaluate(fri_domain, polynomial) ==
    LET points == b_domain_values(fri_domain)
    IN  [i \in 1 .. fri_domain.length |-> polynomial[points[i]]]

\* Range<usize>::len
range_len(columns) ==
    IF columns.end > columns.start THEN columns.end - columns.start ELSE 0

\* the mutant of par_collect: the results in the order the tasks finished
par_collect_as_finished(slots, finished) ==
    [k \in 1 .. Len(finished) |-> slots[finished[k]].value]

\* rayon's par_iter().map(..).collect() into a Vec: every task fills the slot
\* of its own index, and the vector is the slots in the order of their
\* indices, in whatever order the tasks finished
par_collect(slots, finished) ==
    [i \in 1 .. Len(slots) |-> slots[i].value]

\* the mutant of assert_padded: a height of zero is let through, as if the
\* early return for it came first
assert_padded_unless_zero(shared_padded_height, height) ==
    shared_padded_height = 0 \/ shared_padded_height = height

\* assert_eq!(shared_padded_height, self.data().len(), ..)
assert_padded(shared_padded_height, height) == shared_padded_height = height

\* the start of interpolate_columns, up to the parallel interpolation: the
\* call with its arguments, and what it has built or how it has ended
interpolate_columns_start(self, fri_domain, omicron, shared_padded_height, num_trace_randomizers, columns, randomizers) ==
    LET call == [pc |-> "start", self |-> self, fri_domain |-> fri_domain, omicron |-> omicron,
                 shared_padded_height |-> shared_padded_height,
                 num_trace_randomizers |-> num_trace_randomizers,
                 columns |-> columns,
                 interpolation_domain |-> << >>, all_randomized_traces |-> << >>,
                 slots |-> << >>, finished |-> << >>, polynomials |-> << >>,
                 result |-> << >>]
        omicron_domain ==
            [i \in 1 .. shared_padded_height |-> BPow(omicron, i - 1)]
        randomizer_domain ==
            disjoint_domain(num_trace_randomizers, Range(omicron_domain))
        interpolation_domain == omicron_domain \o randomizer_domain
        matrix == data_of(self)
        all_randomized_traces ==
            [k \in 1 .. range_len(columns) |->
                [row \in 1 .. Len(matrix) |-> matrix[row][columns.start + k]]
                    \o randomizers[k]]
    IN  IF ~assert_padded(shared_padded_height, Len(data_of(self)))
        THEN [call EXCEPT !.pc = "panicked"]
        ELSE IF shared_padded_height = 0
        THEN [call EXCEPT !.pc = "interpolated",
                          !.polynomials = [k \in 1 .. range_len(columns) |->
                                              Polynomial_ring_zero]]
        ELSE IF \E k \in 1 .. range_len(columns) :
                    Len(all_randomized_traces[k]) # Len(interpolation_domain)
        THEN [call EXCEPT !.pc = "panicked",
                          !.interpolation_domain = interpolation_domain]
        ELSE [call EXCEPT !.pc = "interpolate",
                          !.interpolation_domain = interpolation_domain,
                          !.all_randomized_traces = all_randomized_traces,
                          !.slots = [k \in 1 .. range_len(columns) |-> None]]

(* The arguments of the calls of the model *)

\* the elements of multiplicative order n: what the caller passes as omicron
\* for a padded height of n
RootsOfOrder(n) ==
    { w \in 1 .. (P - 1) :
        /\ BPow(w, n) = 1
        /\ \A k \in 1 .. (n - 1) : BPow(w, k) # 1 }
Omicrons(shared_padded_height) ==
    IF shared_padded_height = 0 THEN {1} ELSE RootsOfOrder(shared_padded_height)

\* a coset of the subgroup of order 4, by the generator 2 of the units
LdeFriDomains == { FriDomain(2, 5, 4) }
ColumnRanges == { [start |-> 0, end |-> 2], [start |-> 1, end |-> 2],
                  [start |-> 1, end |-> 1] }
\* what DataPF::random_elements draws from
RandomValues == { 5, 11 }

\* the numbers of trace randomizers asked for: the small ones, and one as
\* large as the range disjoint_domain enumerates
ManyRandomizers == EnumLimit
TraceRandomizerCounts == (0 .. MaxRandomizers) \cup {ManyRandomizers}

\* DataPF::random_elements(n, rng): the vectors it may return; of the long
\* ones, those of n equal elements
random_elements(n) ==
    IF n <= MaxRandomizers THEN [1 .. n -> RandomValues]
    ELSE { [i \in 1 .. n |-> v] : v \in RandomValues }

\* table.interpolate_columns(..) or table.low_degree_extension(..) is called,
\* and runs up to the parallel interpolation
LdeCall ==
    /\ table # NoCall /\ padc = NoCall /\ lde = NoCall /\ lifted = NoCall
    /\ \E op \in {"interpolate_columns", "low_degree_extension"},
          fri_domain \in LdeFriDomains,
          shared_padded_height \in 0 .. MaxHeight,
          num_trace_randomizers \in TraceRandomizerCounts,
          columns \in ColumnRanges :
       \E omicron \in Omicrons(shared_padded_height),
          randomizers \in [1 .. range_len(columns) ->
                             random_elements(num_trace_randomizers)] :
          lde' = [op |-> op] @@
                 interpolate_columns_start(table, fri_domain, omicron,
                     shared_padded_height, num_trace_randomizers, columns,
                     randomizers)
    /\ UNCHANGED <<dd, item, acc, flat, perm, table, padc, lifted>>

\* one of the parallel tasks of interpolate_columns runs: it interpolates its
\* randomized trace
InterpolateTask ==
    /\ lde # NoCall /\ lde.pc = "interpolate"
    /\ \E k \in 1 .. Len(lde.slots) :
          /\ lde.slots[k] = None
          /\ lde' = [lde EXCEPT
                !.slots[k] = Some(fast_interpolate(lde.interpolation_domain,
                                                   lde.all_randomized_traces[k])),
                !.finished = Append(@, k)]
    /\ UNCHANGED <<dd, item, acc, flat, perm, table, padc, lifted>>

\* all tasks have run: collect() hands the polynomials to the caller
InterpolateJoin ==
    /\ lde # NoCall /\ lde.pc = "interpolate"
    /\ \A k \in 1 .. Len(lde.slots) : lde.slots[k] # None
    /\ lde' = [lde EXCEPT !.pc = "interpolated",
                          !.polynomials = par_collect(lde.slots, lde.finished)]
    /\ UNCHANGED <<dd, item, acc, flat, perm, table, padc, lifted>>

\* interpolate_columns returns: to its caller, or into low_degree_extension,
\* which starts one evaluation task per polynomial
InterpolateReturn ==
    /\ lde # NoCall /\ lde.pc = "interpolated"
    /\ IF lde.op = "interpolate_columns"
       THEN lde' = [lde EXCEPT !.pc = "returned", !.result = lde.polynomials]
       ELSE lde' = [lde EXCEPT !.pc = "evaluate",
                               !.slots = [k \in 1 .. Len(lde.polynomials) |-> None],
                               !.finished = << >>]
    /\ UNCHANGED <<dd, item, acc, flat, perm, table, padc, lifted>>

\* one of the parallel tasks of low_degree_extension runs: it evaluates its
\* polynomial over the FRI domain
EvaluateTask ==
    /\ lde # NoCall /\ lde.pc = "evaluate"
    /\ \E k \in 1 .. Len(lde.slots) :
          /\ lde.slots[k] = None
          /\ lde' = [lde EXCEPT
                !.slots[k] = Some(evaluate(lde.fri_domain, lde.polynomials[k])),
                !.finished = Append(@, k)]
    /\ UNCHANGED <<dd, item, acc, flat, perm, table, padc, lifted>>

\* all tasks have run: low_degree_extension returns the codewords
EvaluateJoin ==
    /\ lde # NoCall /\ lde.pc = "evaluate"
    /\ \A k \in 1 .. Len(lde.slots) : lde.slots[k] # None
    /\ lde' = [lde EXCEPT !.pc = "returned",
                          !.result = par_collect(lde.slots, lde.finished)]
    /\ UNCHANGED <<dd, item, acc, flat, perm, table, padc, lifted>>

\* the caller goes on with the result, or the panic has unwound
LdeEnd ==
    /\ lde # NoCall /\ lde.pc \in {"returned", "panicked"}
    /\ lde' = NoCall
    /\ UNCHANGED <<dd, item, acc, flat, perm, table, padc, lifted>>

NextLde ==
    \/ New \/ PadCall \/ PadStep \/ PadReturn
    \/ LdeCall \/ InterpolateTask \/ InterpolateJoin \/ InterpolateReturn
    \/ EvaluateTask \/ EvaluateJoin \/ LdeEnd

-----------------------------------------------------------------------------

Init ==
    /\ dd = NoCall
    /\ item = NoCall
    /\ acc = NoCall
    /\ flat = NoCall
    /\ perm = NoCall
    /\ table = NoCall
    /\ padc = NoCall
    /\ lde = NoCall
    /\ lifted = NoCall

NextDomain == Call_disjoint_domain \/ Return_disjoint_domain

SpecDomain == Init /\ [][NextDomain]_vars

SpecItem == Init /\ [][NextItem]_vars

SpecPerm == Init /\ [][NextPerm]_vars

SpecTable == Init /\ [][NextTable]_vars

SpecLde == Init /\ [][NextLde]_vars

\* pad runs to its end unless its loop never ends: a loop that can take a
\* step takes it
FairSpecTable == SpecTable /\ WF_vars(PadStep)

-----------------------------------------------------------------------------
(* C2: for every requested count k and exclusion set S, disjoint_domain(k, S)
   returns exactly k pairwise distinct elements, none of them in S, in the
   increasing order of the enumeration 0, 1, 2, ... *)
C2_DisjointDomainExact ==
    dd.op = "disjoint_domain" =>
        /\ Len(dd.result) = dd.domain_length
        /\ IsInjective(dd.result)
        /\ Range(dd.result) \cap dd.excluded = {}
        /\ \A i, j \in 1 .. Len(dd.result) : i < j => dd.result[i] < dd.result[j]

\* the case of the test disjoint_domain_test
C2_TestCase ==
    /\ dd.op = "disjoint_domain"
    /\ dd.domain_length = 5
    /\ dd.excluded = {2, 5, 4}
    /\ dd.result = <<0, 1, 3, 6, 7>>

-----------------------------------------------------------------------------
(* C3: every typed accessor succeeds on an item of its own variant and returns
   the item's payload unchanged, fails with the type-mismatch error on an item
   of any other variant, and leaves the item as it was *)
C3_TypedAccessors ==
    acc.op = "accessor" =>
        /\ acc.self.variant = acc.accessor =>
              /\ acc.result.ok
              /\ acc.result.value = acc.self.payload
        /\ acc.self.variant # acc.accessor =>
              /\ ~acc.result.ok
              /\ DOMAIN acc.result = {"ok", "error"}
        /\ item = acc.self

\* an accessor is refused by an item whose payload has the type it returns
C3_Mismatch ==
    /\ acc.op = "accessor"
    /\ acc.accessor = "FriCodeword"
    /\ acc.self.variant = "RevealedCombinationElements"
    /\ acc.self.payload # << >>
    /\ ~acc.result.ok

-----------------------------------------------------------------------------
\* the number of base field coefficients of an extension field element
CoefficientCount == 3

(* C6: the flattening of an item is determined by its payload (into_iter reads
   nothing but the item it is given), and its length by the payload's shape: a
   MerkleRoot flattens to its own elements, a SharedPaddedHeight to one
   element, a RevealedCombinationElement to its CoefficientCount coefficients,
   and a vector of n extension elements to n * CoefficientCount elements, the
   coefficients of the elements in the order of the elements *)
C6_FlattenShape ==
    flat.op = "into_iter" =>
        LET v == flat.self.variant
            p == flat.self.payload
            out == flat.result
        IN  /\ v = "MerkleRoot" => out = p
            /\ v = "SharedPaddedHeight" => Len(out) = 1 /\ out[1] = p
            /\ v = "RevealedCombinationElement" =>
                  /\ Len(out) = CoefficientCount
                  /\ \A j \in 1 .. CoefficientCount : out[j] = p[j]
            /\ v \in {"TransposedExtensionElements", "RevealedCombinationElements",
                      "FriCodeword"} =>
                  /\ Len(out) = Len(p) * CoefficientCount
                  /\ \A i \in 1 .. Len(p) : \A j \in 1 .. CoefficientCount :
                        out[(i - 1) * CoefficientCount + j] = p[i][j]

\* a codeword of two different elements has been flattened
C6_TwoElements ==
    /\ flat.op = "into_iter"
    /\ flat.self.variant = "FriCodeword"
    /\ Len(flat.self.payload) = 2
    /\ flat.self.payload[1] # flat.self.payload[2]
    /\ Len(flat.result) = 6

-----------------------------------------------------------------------------
(* C5: all_permutation_arguments returns exactly 5 arguments, each from the
   processor table, to the instruction, jump-stack, op-stack, RAM and u32
   tables in this order *)
C5_AllFromProcessor ==
    perm.op = "all_permutation_arguments" =>
        /\ Len(perm.result) = 5
        /\ \A i \in 1 .. Len(perm.result) : perm.result[i].from_table = "ProcessorTable"
        /\ [i \in 1 .. Len(perm.result) |-> perm.result[i].to_table]
              = << "InstructionTable", "JumpStackTable", "OpStackTable",
                   "RamTable", "U32OpTable" >>

\* the arguments were asked for, the one with the RAM table among them
C5_Called ==
    /\ perm.op = "all_permutation_arguments"
    /\ \E i \in 1 .. Len(perm.result) : perm.result[i].to_table = "RamTable"

-----------------------------------------------------------------------------
\* the row of values of every table at the i-th point of the domain
PointsAt(ext_codeword_tables, i) ==
    [t \in DOMAIN ext_codeword_tables |->
        [c \in DOMAIN ext_codeword_tables[t] |-> ext_codeword_tables[t][c][i]]]

(* C7: quotient returns one value per point of the FRI domain, and its value
   at the i-th point x satisfies  value * (x - 1) = lhs[i] - rhs[i]  for the
   codewords lhs, rhs of the two columns the argument names; lhs[i] - rhs[i]
   is what evaluate_difference returns for the row of values at that point *)
C7_QuotientRelation ==
    perm.op = "quotient" =>
        LET pa == perm.self
            ext == perm.ext_codeword_tables
            lhs == ext[pa.from_table][pa.from_column]
            rhs == ext[pa.to_table][pa.to_column]
            xs == x_domain_values(perm.fri_domain)
        IN  /\ Len(perm.result) = perm.fri_domain.length
            /\ \A i \in 1 .. Len(perm.result) :
                  /\ XMul(perm.result[i], XSub(xs[i], XOne)) = XSub(lhs[i], rhs[i])
                  /\ XSub(lhs[i], rhs[i]) = evaluate_difference(pa, PointsAt(ext, i))

\* a quotient of two codewords that differ somewhere, over four points
C7_NonZeroQuotient ==
    /\ perm.op = "quotient"
    /\ perm.fri_domain.length = 4
    /\ \E i \in 1 .. Len(perm.result) : perm.result[i] # XZero
    /\ \E i \in 1 .. Len(perm.result) : perm.result[i][2] # 0

-----------------------------------------------------------------------------
\* the call of pad at hand was given a target that the table had not passed
PadWithinTarget ==
    /\ padc.op \in {"pad", "pad returned"}
    /\ padc.shared_padded_height >= Len(padc.entry.matrix)

\* what holds of a table during and after such a call
C1_PadKeepsRows ==
    PadWithinTarget =>
        LET h0 == Len(padc.entry.matrix)
        IN  /\ Len(table.matrix) >= h0
            /\ Len(table.matrix) <= padc.shared_padded_height
            /\ SubSeq(table.matrix, 1, h0) = padc.entry.matrix
            /\ Len(padc.rows) = Len(table.matrix) - h0
            /\ \A i \in 1 .. Len(padc.rows) :
                  /\ table.matrix[h0 + i] = padc.rows[i]
                  /\ padc.rows[i] \in get_padding_row(padc.entry)
            /\ [table EXCEPT !.matrix = padc.entry.matrix] = padc.entry
            /\ padc.op = "pad returned" => Len(table.matrix) = padc.shared_padded_height

(* C1: for a table of h0 rows and a target >= h0, pad(target) returns, the
   table then has exactly target rows, its first h0 rows are the rows it had,
   in their order, every later row is a row get_padding_row returned, and no
   field but the matrix has changed *)
C1_Pad ==
    /\ []C1_PadKeepsRows
    /\ (padc.op = "pad" /\ PadWithinTarget) ~> (padc.op = "pad returned")

\* a table of two different rows was padded by two rows
C1_PaddedByTwo ==
    /\ padc.op = "pad returned"
    /\ Len(padc.entry.matrix) = 2
    /\ padc.entry.matrix[1] # padc.entry.matrix[2]
    /\ padc.shared_padded_height = 4
    /\ Len(table.matrix) = 4

-----------------------------------------------------------------------------
ConstraintFields ==
    { "boundary_constraints", "transition_constraints",
      "consistency_constraints", "terminal_constraints" }

\* the field of quotient degree bounds that belongs to a field of constraints
BoundsOf(f) ==
    CASE f = "boundary_constraints" -> "boundary_quotient_degree_bounds"
      [] f = "transition_constraints" -> "transition_quotient_degree_bounds"
      [] f = "consistency_constraints" -> "consistency_quotient_degree_bounds"
      [] f = "terminal_constraints" -> "terminal_quotient_degree_bounds"

AllUnset(t) == \A f \in ConstraintFields : t[f] = None /\ t[BoundsOf(f)] = None

AllSet(t) ==
    \A f \in ConstraintFields :
        /\ t[f].some
        /\ t[BoundsOf(f)].some
        /\ Len(t[BoundsOf(f)].value) = Len(t[f].value)

EightFields(t) == [f \in ConstraintFields |-> <<t[f], t[BoundsOf(f)]>>]

(* C10: the four constraint sets and the four sequences of quotient degree
   bounds are unset after new; a step that changes any of them sets all
   eight, each sequence of bounds with one entry per constraint of its kind,
   and keeps base_width, full_width, matrix and name - so it is a step of
   extension, and pad and with_data, which change the matrix or the name,
   never change the eight fields, before extension or after *)
C10_ConstraintsSetOnce ==
    /\ [](table # NoCall => AllUnset(table) \/ AllSet(table))
    /\ [][table = NoCall /\ table' # NoCall => AllUnset(table')]_vars
    /\ [][table # NoCall /\ EightFields(table') # EightFields(table) =>
            /\ AllSet(table')
            /\ table'.base_width = table.base_width
            /\ table'.full_width = table.full_width
            /\ table'.matrix = table.matrix
            /\ table'.name = table.name]_vars
    /\ [][table # NoCall /\ (table'.matrix # table.matrix \/ table'.name # table.name) =>
            EightFields(table') = EightFields(table)]_vars

\* an extended table, with sequences of bounds of different lengths, was
\* given new data and then padded
C10_ExtendedThenPadded ==
    /\ padc.op = "pad returned"
    /\ padc.rows # << >>
    /\ AllSet(padc.entry)
    /\ AllSet(table)
    /\ table.name = "T with data"
    /\ Len(table.transition_quotient_degree_bounds.value) = 3
    /\ Len(table.terminal_quotient_degree_bounds.value) = 0

-----------------------------------------------------------------------------
\* t, over the variables of a row and of its successor, is the polynomial r
\* over the variables of a row
SameShape(t, r) ==
    LET w == r.variable_count
    IN  /\ t.variable_count = 2 * w
        /\ \/ t.exponents = { e \o Zeros(w) : e \in r.exponents }
           \/ t.exponents = { Zeros(w) \o e : e \in r.exponents }

(* C8: in an extended table the quotient degree bound of a transition
   constraint is at least the bound of any boundary, consistency or terminal
   constraint of the same polynomial shape *)
C8_TransitionBoundNotSmaller ==
    (table # NoCall /\ AllSet(table)) =>
        \A f \in ConstraintFields \ {"transition_constraints"} :
        \A i \in 1 .. Len(table.transition_constraints.value) :
        \A j \in 1 .. Len(table[f].value) :
            SameShape(table.transition_constraints.value[i], table[f].value[j]) =>
                table.transition_quotient_degree_bounds.value[i]
                    >= table[BoundsOf(f)].value[j]

\* a transition constraint and a boundary constraint of one shape, of degree 3
\* in the variables, with interpolants of degree 3
C8_SameShapePair ==
    /\ table # NoCall
    /\ AllSet(table)
    /\ \E i \in 1 .. Len(table.transition_constraints.value) :
       \E j \in 1 .. Len(table.boundary_constraints.value) :
          /\ SameShape(table.transition_constraints.value[i],
                       table.boundary_constraints.value[j])
          /\ table.transition_quotient_degree_bounds.value[i] = 8
          /\ table.boundary_quotient_degree_bounds.value[j] = 8

-----------------------------------------------------------------------------
(* C4: a call of interpolate_columns or low_degree_extension on a table whose
   number of rows differs from shared_padded_height fails on the assertion,
   whatever the two numbers are (a shared_padded_height of 0 with a table
   that has rows included), before any polynomial is produced; so a call gets
   past the assertion only on a table of exactly shared_padded_height rows *)
C4_InterpolationNeedsPaddedTable ==
    lde # NoCall =>
        /\ Len(lde.self.matrix) # lde.shared_padded_height =>
              /\ lde.pc = "panicked"
              /\ lde.slots = << >>
              /\ lde.polynomials = << >>
              /\ lde.result = << >>
        /\ lde.pc # "panicked" => Len(table.matrix) = lde.shared_padded_height

\* low_degree_extension for a height of 0 on a table that has rows
C4_ZeroHeightOnRows ==
    /\ lde # NoCall
    /\ lde.op = "low_degree_extension"
    /\ lde.shared_padded_height = 0
    /\ Len(table.matrix) > 0
    /\ lde.columns = [start |-> 0, end |-> 2]
    /\ lde.pc = "panicked"

-----------------------------------------------------------------------------
(* C9: low_degree_extension returns one codeword per column of the range, the
   k-th of them the values over the FRI domain of the interpolant of the k-th
   column of the range (the polynomial that takes the column's values on the
   omicron domain), in whatever order the parallel tasks ran; a task fills the
   slot of its own column and nothing else, and the table is as it was *)
C9_CodewordsInColumnOrder ==
    lde # NoCall =>
        LET n == range_len(lde.columns)
            points == b_domain_values(lde.fri_domain)
            Interpolant(k) ==
                IF lde.shared_padded_height = 0 THEN Polynomial_ring_zero
                ELSE fast_interpolate(lde.interpolation_domain,
                                      lde.all_randomized_traces[k])
        IN  /\ table = lde.self
            /\ lde.pc = "interpolate" =>
                  \A k \in 1 .. Len(lde.slots) :
                      lde.slots[k] # None => lde.slots[k].value = Interpolant(k)
            /\ lde.pc = "evaluate" =>
                  \A k \in 1 .. Len(lde.slots) :
                      lde.slots[k] # None =>
                          lde.slots[k].value = evaluate(lde.fri_domain, Interpolant(k))
            /\ (lde.op = "low_degree_extension" /\ lde.pc = "returned") =>
                  /\ Len(lde.result) = n
                  /\ Len(lde.polynomials) = n
                  /\ \A k \in 1 .. n :
                        /\ lde.polynomials[k] = Interpolant(k)
                        /\ \A row \in 1 .. Len(table.matrix) :
                              lde.polynomials[k][BPow(lde.omicron, row - 1)]
                                  = table.matrix[row][lde.columns.start + k]
                        /\ lde.result[k] =
                              [i \in 1 .. lde.fri_domain.length |->
                                  lde.polynomials[k][points[i]]]

\* the codewords of two columns, which differ, whose tasks finished in the
\* order second, first
C9_SecondTaskFirst ==
    /\ lde # NoCall
    /\ lde.op = "low_degree_extension"
    /\ lde.pc = "returned"
    /\ lde.finished = <<2, 1>>
    /\ Len(table.matrix) = 2
    /\ lde.num_trace_randomizers = 1
    /\ lde.result[1] # lde.result[2]

-----------------------------------------------------------------------------
\* the call of pad at hand was given a target below the height of the table
PadBeyondTarget ==
    /\ padc.op \in {"pad", "pad returned"}
    /\ padc.shared_padded_height < Len(padc.entry.matrix)

\* what holds of a table during such a call: the call has not returned, the
\* table holds the rows it had and one padding row for each iteration
C11_PadStillLooping ==
    PadBeyondTarget =>
        LET h0 == Len(padc.entry.matrix)
        IN  /\ padc.op = "pad"
            /\ Len(table.matrix) >= h0
            /\ Len(table.matrix) = h0 + Len(padc.rows)
            /\ SubSeq(table.matrix, 1, h0) = padc.entry.matrix
            /\ pad_loop_condition(Len(table.matrix), padc.shared_padded_height)

\* what a step of such a call does: one more row, a padding row, at the end
C11_PadIteration ==
    PadBeyondTarget =>
        /\ padc'.op = "pad"
        /\ padc'.shared_padded_height = padc.shared_padded_height
        /\ Len(table'.matrix) = Len(table.matrix) + 1
        /\ SubSeq(table'.matrix, 1, Len(table.matrix)) = table.matrix
        /\ table'.matrix[Len(table'.matrix)] \in get_padding_row(table)

(* C11: pad(target) on a table higher than target never returns: every
   iteration of its loop appends one padding row, the height grows by one,
   no row is taken away, and the loop condition height != target holds
   again after each iteration *)
C11_PadBeyondTargetNeverReturns ==
    /\ []C11_PadStillLooping
    /\ [][C11_PadIteration]_vars

\* a table of one row was padded towards 0 rows, and has three rows more
C11_ThreeRowsPastTarget ==
    /\ padc.op = "pad"
    /\ padc.shared_padded_height = 0
    /\ Len(padc.entry.matrix) = 1
    /\ Len(table.matrix) = 4
    /\ Len(padc.rows) = 3

-----------------------------------------------------------------------------
\* the call at hand is on a padded table of one row or more
PaddedCall ==
    /\ lde # NoCall
    /\ lde.shared_padded_height > 0
    /\ Len(lde.self.matrix) = lde.shared_padded_height

(* C12: for a padded table of height h > 0 and any number r of trace
   randomizers, the interpolation domain of interpolate_columns is the h
   powers of omicron followed by r points of disjoint_domain: it has exactly
   h + r points, none of the last r is among the first h, the h + r points
   are pairwise distinct, and the values of every column are h + r as well,
   so that the call does not panic *)
C12_InterpolationDomain ==
    PaddedCall =>
        LET h == lde.shared_padded_height
            r == lde.num_trace_randomizers
            points == lde.interpolation_domain
        IN  /\ Len(points) = h + r
            /\ \A i \in 1 .. h : points[i] = BPow(lde.omicron, i - 1)
            /\ \A i \in 1 .. h, j \in (h + 1) .. Len(points) : points[i] # points[j]
            /\ IsInjective(points)
            /\ lde.pc # "panicked"
            /\ lde.pc = "interpolate" =>
                  \A k \in 1 .. Len(lde.all_randomized_traces) :
                      Len(lde.all_randomized_traces[k]) = h + r

\* a padded table of four rows, two columns of it, and one randomizer: the
\* domain is the four powers of omicron and the point 0
C12_FourRowsOneRandomizer ==
    /\ PaddedCall
    /\ lde.shared_padded_height = 4
    /\ lde.num_trace_randomizers = 1
    /\ lde.columns = [start |-> 0, end |-> 2]
    /\ lde.pc = "interpolate"
    /\ Len(lde.interpolation_domain) = 5
    /\ lde.interpolation_domain[5] = 0

-----------------------------------------------------------------------------
\* what holds of the result of with_lifted_data
C13_LiftedIsNew ==
    lifted # NoCall =>
        /\ lifted.result.base_width = lifted.self.base_width
        /\ lifted.result.full_width = lifted.self.full_width
        /\ lifted.result.matrix = lifted.matrix
        /\ lifted.result.name = lifted.self.name \o " with lifted data"
        /\ AllUnset(lifted.result)
        /\ lifted.result =
              BaseTable_new(BaseWidth, FullWidth, lifted.matrix, lifted.result.name)
        /\ table = lifted.self

\* what a step of with_data does to the table
C13_WithDataKeepsFields ==
    (table # NoCall /\ table' # NoCall /\ Len(table'.name) > Len(table.name)) =>
        /\ table'.name = table.name \o " with data"
        /\ [table' EXCEPT !.matrix = table.matrix, !.name = table.name] = table

(* C13: with_lifted_data on a table of base field elements, extended or not,
   returns a new table of the same base_width and full_width with the matrix
   it was given and the name followed by " with lifted data", whose four sets
   of constraints and four sequences of degree bounds are all unset, and
   leaves the table it was called on as it was; with_data keeps every field
   but the matrix and the name, which it follows by " with data" *)
C13_WithLiftedData ==
    /\ []C13_LiftedIsNew
    /\ [][C13_WithDataKeepsFields]_vars

\* an extended table, derived by with_data, was lifted with a matrix of two rows
C13_ExtendedTableLifted ==
    /\ lifted # NoCall
    /\ AllSet(lifted.self)
    /\ lifted.self.name = "T with data"
    /\ Len(lifted.matrix) = 2
    /\ lifted.result.name = "T with data with lifted data"
    /\ AllUnset(lifted.result)

====
